---- MODULE Spec2Model ----
(***************************************************************************)
(* Model of the search-and-rerank pipeline of OIC-LogLens                  *)
(* (src/src/search_service.py): search_log and rerank_with_llm.            *)
(*                                                                         *)
(* Conventions.                                                            *)
(*  - A Python string is a sequence of one-character strings, so that      *)
(*    str.split("/") is computed and not assumed.                          *)
(*  - An optional Python value is <<>> for None / absent key and <<v>> for *)
(*    the value v.                                                         *)
(*  - A distance is an integer number of 1e-5 units (12000 is 0.12); a     *)
(*    similarity_score is an integer number of hundredths of a percent     *)
(*    (8800 is 88.0), which is the precision round(_, 2) keeps.            *)
(*  - A Python dict is a record; "k" \in DOMAIN d is Python's  k in d.     *)
(*  - The pass-through columns flow_code, trigger_type, error_code and     *)
(*    normalized_json are copied verbatim by the code and are not read by  *)
(*    any step; they are left out of the rows.                             *)
(***************************************************************************)
EXTENDS Integers, Sequences, FiniteSets, TLC

(* ---- bounds of the model ---- *)
MaxTopN == 2
MaxResults == 2
MaxReranked == 2

(* ---- constants of the program ---- *)
SummaryLimit == 150
RankSentinel == 999
HTTP_500_INTERNAL_SERVER_ERROR == 500

(* ---- optional values ---- *)
None == <<>>
Some(v) == <<v>>

(* ---- inputs the collaborators may produce ---- *)
UrlXA == <<"x", "/", "a">>
UrlYA == <<"y", "/", "a">>
ShortA == <<"a">>
ShortB == <<"b">>

\* rows the vector store may return: two logs of one ticket, two tickets with
\* the same last path segment, distances 0.12, 1.5, 2.0 and missing, summaries
\* absent, short, at the limit and one character over it
StoreRows ==
    { [jira_id |-> UrlXA, similarity_score |-> Some(12000), error_summary |-> Some(40)],
      [jira_id |-> UrlXA, similarity_score |-> Some(150000), error_summary |-> Some(151)],
      [jira_id |-> UrlYA, similarity_score |-> None, error_summary |-> None],
      [jira_id |-> UrlYA, similarity_score |-> Some(200000), error_summary |-> Some(150)] }

\* entries of the "results" list of a re-rank response
ReplyIds == {UrlXA, ShortA, ShortB}
ReplyRanks == {None, Some(1), Some(2)}
ClassOf(rank) == IF rank = Some(1) THEN Some("DUPLICATE")
                 ELSE IF rank = Some(2) THEN Some("SIMILAR") ELSE None
ReplyEntries ==
    { [jira_id |-> i, rank |-> r, classification |-> ClassOf(r),
       confidence |-> r, reasoning |-> ClassOf(r)] : i \in ReplyIds, r \in ReplyRanks }

\* texts of the exceptions the collaborators raise
ErrMsgs == {<<"t", "i", "m", "e", "o", "u", "t">>, <<"4", "2", "9">>}
NoLenMsg == <<"N", "o", "n", "e", "T", "y", "p", "e">>

SeqsUpTo(S, n) == UNION { [1..k -> S] : k \in 0..n }

VARIABLES pc, top_n, calls, results, matches, llm, enhanced_matches,
          final_results, raised, http_error

vars == <<pc, top_n, calls, results, matches, llm, enhanced_matches,
          final_results, raised, http_error>>

(* ---- pure helpers ---- *)

\* round(x, 2) for x = n / q hundredths, ties to even
RoundHalfEven(n, q) ==
    LET f == n \div q
        r == n % q
    IN  IF 2 * r < q THEN f
        ELSE IF 2 * r > q THEN f + 1
        ELSE IF f % 2 = 0 THEN f ELSE f + 1

\* float(result.get("similarity_score", 1.0))
DistanceOf(row) ==
    IF row.similarity_score = None THEN 100000 ELSE row.similarity_score[1]

\* round((1 - distance) * 100, 2), in hundredths
SimilarityScore(distance) == RoundHalfEven(100000 - distance, 10)

\* length of error_summary[:150] + ("..." if len(error_summary) > 150 else "")
ErrorSummaryShort(row) ==
    LET len == IF row.error_summary = None THEN 0 ELSE row.error_summary[1]
    IN  IF len > SummaryLimit THEN SummaryLimit + Len(<<".", ".", ".">>) ELSE len

FormatRow(row) ==
    [jira_id |-> row.jira_id,
     similarity_score |-> SimilarityScore(DistanceOf(row)),
     error_summary |-> ErrorSummaryShort(row)]

FormatResults(rows) == [i \in 1..Len(rows) |-> FormatRow(rows[i])]

(* ---- rerank_with_llm ---- *)

\* full_url.split("/")[-1]
LastSegment(s) ==
    LET slashes == { i \in 1..Len(s) : s[i] = "/" }
    IN  IF slashes = {} THEN s
        ELSE LET last == CHOOSE i \in slashes : \A j \in slashes : j <= i
             IN  SubSeq(s, last + 1, Len(s))

\* d[k] = v on a dict
DictSet(d, k, v) == [x \in DOMAIN d \cup {k} |-> IF x = k THEN v ELSE d[x]]

\* variant of BuildLookup: a key already present is kept (setdefault)
RECURSIVE BuildLookupFirstWins(_, _, _)
BuildLookupFirstWins(candidates, i, d) ==
    IF i > Len(candidates) THEN d
    ELSE LET c == candidates[i]
             full_url == c.jira_id
             d1 == IF full_url \in DOMAIN d THEN d ELSE DictSet(d, full_url, c)
             d2 == IF full_url # <<>> /\ LastSegment(full_url) \notin DOMAIN d1
                   THEN DictSet(d1, LastSegment(full_url), c)
                   ELSE d1
         IN  BuildLookupFirstWins(candidates, i + 1, d2)

\* the loop that fills jira_to_candidate, from candidate i on
RECURSIVE BuildLookup(_, _, _)
BuildLookup(candidates, i, d) ==
    IF i > Len(candidates) THEN d
    ELSE LET c == candidates[i]
             full_url == c.jira_id
             d1 == DictSet(d, full_url, c)
             d2 == IF full_url # <<>>
                   THEN DictSet(d1, LastSegment(full_url), c)
                   ELSE d1
         IN  BuildLookup(candidates, i + 1, d2)

JiraToCandidate(candidates) == BuildLookup(candidates, 1, <<>>)

\* candidate.copy() followed by candidate.update({...})
MergeEntry(candidate, result) ==
    [jira_id |-> candidate.jira_id,
     similarity_score |-> candidate.similarity_score,
     error_summary |-> candidate.error_summary,
     rank |-> result.rank,
     classification |-> result.classification,
     confidence |-> result.confidence,
     reasoning |-> result.reasoning]

\* the loop that fills enhanced_results, from response entry i on
RECURSIVE EnhancedFrom(_, _, _)
EnhancedFrom(lookup, reranked, i) ==
    IF i > Len(reranked) THEN <<>>
    ELSE LET result == reranked[i]
             rest == EnhancedFrom(lookup, reranked, i + 1)
         IN  IF result.jira_id \in DOMAIN lookup
             THEN <<MergeEntry(lookup[result.jira_id], result)>> \o rest
             ELSE rest

\* lambda x: x.get("rank", 999)
SortKey(x) == IF "rank" \in DOMAIN x THEN x.rank ELSE Some(RankSentinel)

\* list.sort compares keys; None is ordered with nothing (TypeError)
SortRaises(s) == Len(s) >= 2 /\ \E i \in 1..Len(s) : SortKey(s[i]) = None

\* insertion into a list sorted by key, after the entries with key <= key(x)
InsertByKey(s, x) ==
    LET p == Cardinality({ i \in 1..Len(s) : SortKey(s[i])[1] <= SortKey(x)[1] })
    IN  SubSeq(s, 1, p) \o <<x>> \o SubSeq(s, p + 1, Len(s))

\* variant of SortByRank: the list is left in response order
SortByRankSkipped(s) == s

\* enhanced_results.sort(key=...): stable, ascending
RECURSIVE SortByRank(_)
SortByRank(s) ==
    IF Len(s) <= 1 THEN s
    ELSE InsertByKey(SortByRank(SubSeq(s, 1, Len(s) - 1)), s[Len(s)])

\* replies of the generative client, as rerank_with_llm sees them
FailedReplies == { [kind |-> k, results |-> <<>>] :
                     k \in {"prompt_raises", "call_raises", "bad_json"} }
ParsedReplies == { [kind |-> "ok", results |-> r] :
                     r \in SeqsUpTo(ReplyEntries, MaxReranked) }
Replies == FailedReplies \cup ParsedReplies
NoReply == [kind |-> "none", results |-> <<>>]

\* variant of RerankWithLLM: a failing sort hands back the merged list
RerankReturnsPartial(candidates, reply) ==
    IF reply.kind # "ok" THEN candidates
    ELSE EnhancedFrom(JiraToCandidate(candidates), reply.results, 1)

\* variant of RerankWithLLM: a failure of the step yields no candidates
RerankFailsEmpty(candidates, reply) ==
    IF reply.kind # "ok" THEN <<>>
    ELSE LET enhanced_results ==
                 EnhancedFrom(JiraToCandidate(candidates), reply.results, 1)
         IN  IF SortRaises(enhanced_results) THEN candidates
             ELSE SortByRank(enhanced_results)

RerankWithLLM(candidates, reply) ==
    IF reply.kind # "ok" THEN candidates
    ELSE LET enhanced_results ==
                 EnhancedFrom(JiraToCandidate(candidates), reply.results, 1)
         IN  IF SortRaises(enhanced_results) THEN candidates
             ELSE SortByRank(enhanced_results)

(* ---- search_log ---- *)

\* variant of Truncate: the slice keeps one entry too many
TruncateOffByOne(s, n) == SubSeq(s, 1, IF n + 1 < Len(s) THEN n + 1 ELSE Len(s))

\* enhanced_matches[:top_n], top_n >= 0
Truncate(s, n) == SubSeq(s, 1, IF n < Len(s) THEN n ELSE Len(s))

SearchFailedPrefix == <<"S", "e", "a", "r", "c", "h", " ", "f", "a", "i", "l", "e", "d", ":", " ">>

\* variant of HTTPException: the detail is generic
HTTPExceptionGeneric(e) ==
    Some([status_code |-> HTTP_500_INTERNAL_SERVER_ERROR,
          detail |-> SearchFailedPrefix])

\* HTTPException(status_code=500, detail=f"Search failed: {str(e)}")
HTTPException(e) ==
    Some([status_code |-> HTTP_500_INTERNAL_SERVER_ERROR,
          detail |-> SearchFailedPrefix \o e])

\* variant of Fail: a failed normalize or embed stage is logged and the
\* pipeline goes on
FailKeepsGoing(stage, e) ==
    /\ pc' = (IF stage = "normalize" THEN "embed"
              ELSE IF stage = "embed" THEN "search" ELSE "raised")
    /\ raised' = Some([stage |-> stage, text |-> e])
    /\ http_error' = HTTPException(e)

\* the except clause of search_log, entered from stage `stage` with exception e
Fail(stage, e) ==
    /\ pc' = "raised"
    /\ raised' = Some([stage |-> stage, text |-> e])
    /\ http_error' = HTTPException(e)

Init ==
    /\ pc = "normalize"
    /\ top_n \in 0..MaxTopN
    /\ calls = <<>>
    /\ results = None
    /\ matches = <<>>
    /\ llm = NoReply
    /\ enhanced_matches = <<>>
    /\ final_results = <<>>
    /\ raised = None
    /\ http_error = None

\* Step 1: normalize_log(raw_log)
Normalize ==
    /\ pc = "normalize"
    /\ calls' = Append(calls, "normalize_log")
    /\ \/ /\ pc' = "embed"
          /\ UNCHANGED <<raised, http_error>>
       \/ \E e \in ErrMsgs : Fail("normalize", e)
    /\ UNCHANGED <<top_n, results, matches, llm, enhanced_matches, final_results>>

\* Step 2: generate_embedding(normalized_log)
Embed ==
    /\ pc = "embed"
    /\ calls' = Append(calls, "generate_embedding")
    /\ \/ /\ pc' = "search"
          /\ UNCHANGED <<raised, http_error>>
       \/ \E e \in ErrMsgs : Fail("embed", e)
    /\ UNCHANGED <<top_n, results, matches, llm, enhanced_matches, final_results>>

\* Step 3: search_similar_logs(embedding, top_n); the store is not bound by
\* this code to return a list, nor to return at most top_n rows
Search ==
    /\ pc = "search"
    /\ calls' = Append(calls, "search_similar_logs")
    /\ \/ /\ pc' = "format"
          /\ results' \in {None} \cup { Some(r) : r \in SeqsUpTo(StoreRows, MaxResults) }
          /\ UNCHANGED <<raised, http_error>>
       \/ /\ \E e \in ErrMsgs : Fail("search", e)
          /\ UNCHANGED results
    /\ UNCHANGED <<top_n, matches, llm, enhanced_matches, final_results>>

\* Step 4: len(results) and the loop that fills matches
Format ==
    /\ pc = "format"
    /\ calls' = Append(calls, "format")
    /\ IF results = None
       THEN /\ Fail("format", NoLenMsg)
            /\ UNCHANGED matches
       ELSE /\ matches' = FormatResults(results[1])
            /\ pc' = "rerank"
            /\ UNCHANGED <<raised, http_error>>
    /\ UNCHANGED <<top_n, results, llm, enhanced_matches, final_results>>

\* Step 5: rerank_with_llm(normalized_log, matches), the slice and the return
Rerank ==
    /\ pc = "rerank"
    /\ \E reply \in Replies :
         /\ llm' = reply
         /\ calls' = calls \o (IF reply.kind = "prompt_raises"
                               THEN <<"rerank_with_llm">>
                               ELSE <<"rerank_with_llm", "generate_content">>)
         /\ enhanced_matches' = RerankWithLLM(matches, reply)
    /\ final_results' = Truncate(enhanced_matches', top_n)
    /\ pc' = "returned"
    /\ UNCHANGED <<top_n, results, matches, raised, http_error>>

Next == Normalize \/ Embed \/ Search \/ Format \/ Rerank

Spec == Init /\ [][Next]_vars

(* ---- vocabulary of the properties ---- *)

RerankFields == {"rank", "classification", "confidence", "reasoning"}
CandidateFields == {"jira_id", "similarity_score", "error_summary"}

Unannotated(e) == DOMAIN e \cap RerankFields = {}

\* the two identifiers a response may use for candidate c
CandidateKeys(c) == {c.jira_id, LastSegment(c.jira_id)}

\* positions of the candidates a response identifier names
NamedBy(id) == { k \in 1..Len(matches) : id \in CandidateKeys(matches[k]) }

\* positions of the response entries that name some candidate
MatchedIdx == { i \in 1..Len(llm.results) : NamedBy(llm.results[i].jira_id) # {} }

AllRanked == \A i \in 1..Len(llm.results) : llm.results[i].rank # None

\* the step was abandoned: the prompt, the call or the parse failed, or the
\* sort met a rank it cannot order
StepAbandoned ==
    \/ llm.kind \in {"prompt_raises", "call_raises", "bad_json"}
    \/ /\ llm.kind = "ok"
       /\ Cardinality(MatchedIdx) >= 2
       /\ \E i \in MatchedIdx : llm.results[i].rank = None

Contains(text, part) ==
    \E i \in 1..(Len(text) - Len(part) + 1) : SubSeq(text, i, i + Len(part) - 1) = part

Count(s, r) == Cardinality({ k \in 1..Len(s) : s[k] = r })

StageOrder == <<"normalize_log", "generate_embedding", "search_similar_logs",
                "format", "rerank_with_llm", "generate_content">>

StageIndex(stage) ==
    IF stage = "normalize" THEN 1
    ELSE IF stage = "embed" THEN 2
    ELSE IF stage = "search" THEN 3 ELSE 4

(* ---- properties ---- *)

\* C1: whenever search_log returns normally, the returned list has at most
\* top_n entries, whatever the store and the re-rank response contain.
C1_AtMostTopN ==
    pc = "returned" => Len(final_results) <= top_n

\* a response naming one candidate twice made the re-ranked list longer than
\* both the candidate list and top_n, and the slice cut it
C1_Witness ==
    /\ pc = "returned"
    /\ llm.kind = "ok"
    /\ top_n >= 1
    /\ Len(enhanced_matches) > Len(matches)
    /\ Len(enhanced_matches) > top_n
    /\ Len(final_results) = top_n

\* C2: rerank_with_llm never raises; when anything fails inside the step it
\* returns the candidate list it was given, same entries, same order, none of
\* them carrying a rank, classification, confidence or reasoning field, also
\* when entries had already been merged.
C2_FallbackIsIdentity ==
    /\ raised # None => raised[1].stage # "rerank"
    /\ (pc = "returned" /\ StepAbandoned) =>
          /\ enhanced_matches = matches
          /\ \A i \in 1..Len(enhanced_matches) : Unannotated(enhanced_matches[i])

\* the sort failed after two entries had been merged
C2_Witness ==
    /\ pc = "returned"
    /\ llm.kind = "ok"
    /\ Cardinality(MatchedIdx) = 2
    /\ llm.results[1].rank = None
    /\ Len(matches) = 2
    /\ enhanced_matches = matches

\* C3: if the normalize, embed, vector-search or format stage raises,
\* search_log returns no list; it ends in one 500 error whose message
\* contains the text of the exception, the same shape for the four stages.
C3_FailureIs500 ==
    /\ raised # None <=> pc = "raised"
    /\ raised # None <=> http_error # None
    /\ raised # None =>
          /\ raised[1].stage \in {"normalize", "embed", "search", "format"}
          /\ final_results = <<>>
          /\ DOMAIN http_error[1] = {"status_code", "detail"}
          /\ http_error[1].status_code = 500
          /\ Contains(http_error[1].detail, raised[1].text)

\* the format stage failed on a store reply that is no list
C3_Witness ==
    /\ pc = "raised"
    /\ raised # None
    /\ raised[1].stage = "format"
    /\ http_error # None

\* C4: if the external re-rank call throws, search_log does not fail; it
\* returns the formatted candidates in vector-search order, cut to the first
\* top_n, none carrying a re-rank field.
C4_RerankThrowDegrades ==
    (pc = "returned" /\ llm.kind = "call_raises") =>
        /\ raised = None
        /\ http_error = None
        /\ Len(final_results) = (IF top_n < Len(results[1]) THEN top_n ELSE Len(results[1]))
        /\ \A i \in 1..Len(final_results) :
              /\ final_results[i] = matches[i]
              /\ final_results[i].jira_id = results[1][i].jira_id
              /\ Unannotated(final_results[i])

\* the call threw with more candidates than top_n
C4_Witness ==
    /\ pc = "returned"
    /\ llm.kind = "call_raises"
    /\ top_n >= 1
    /\ Len(matches) > top_n
    /\ Len(final_results) = top_n

\* C5: the list rerank_with_llm returns never has more entries than the
\* candidate list it was given.
C5_NeverMoreThanCandidates ==
    pc = "returned" => Len(enhanced_matches) <= Len(matches)

\* the stable order C6 describes: ranked entries ascending, then the entries
\* without a rank in their order of arrival
HasRank(x) == x.rank # None
HasNoRank(x) == x.rank = None
SentinelOrder(merged) ==
    SortByRank(SelectSeq(merged, HasRank)) \o SelectSeq(merged, HasNoRank)

\* C6: when the response parses and some matched entries have no rank,
\* rerank_with_llm returns the merged entries, ranked ones first in ascending
\* rank order, the ones without a rank after them in their original order.
C6_UnrankedSortLast ==
    (pc = "returned" /\ llm.kind = "ok"
        /\ \E i \in MatchedIdx : llm.results[i].rank = None) =>
        enhanced_matches =
            SentinelOrder(EnhancedFrom(JiraToCandidate(matches), llm.results, 1))

\* C7: when the response parses and every entry carries an integer rank,
\* rerank_with_llm returns exactly one entry per response entry that names a
\* candidate, each the fields of a candidate it names plus the entry's rank,
\* classification, confidence and reasoning, in ascending rank order; entries
\* naming no candidate are left out.
C7_MergedAndOrdered ==
    (pc = "returned" /\ llm.kind = "ok" /\ AllRanked) =>
        /\ Len(enhanced_matches) = Cardinality(MatchedIdx)
        /\ \A k \in 1..(Len(enhanced_matches) - 1) :
              enhanced_matches[k].rank[1] <= enhanced_matches[k + 1].rank[1]
        /\ \E f \in [1..Len(enhanced_matches) -> MatchedIdx] :
              /\ \A a, b \in DOMAIN f : f[a] = f[b] => a = b
              /\ \A k \in DOMAIN f :
                    LET e == llm.results[f[k]]
                        o == enhanced_matches[k]
                    IN  /\ DOMAIN o = CandidateFields \cup RerankFields
                        /\ o.rank = e.rank
                        /\ o.classification = e.classification
                        /\ o.confidence = e.confidence
                        /\ o.reasoning = e.reasoning
                        /\ \E j \in NamedBy(e.jira_id) :
                              /\ o.jira_id = matches[j].jira_id
                              /\ o.similarity_score = matches[j].similarity_score
                              /\ o.error_summary = matches[j].error_summary

\* two matched entries arrived in descending rank order and came out sorted
C7_Witness ==
    /\ pc = "returned"
    /\ llm.kind = "ok"
    /\ Len(llm.results) = 2
    /\ MatchedIdx = {1, 2}
    /\ llm.results[1].rank = Some(2)
    /\ llm.results[2].rank = Some(1)
    /\ Len(enhanced_matches) = 2
    /\ enhanced_matches[1].rank = Some(1)

\* C8 as stated: a response entry whose identifier is the full identifier or
\* the short id of candidate c is merged with c, for every such c.
C8_MatchedToEveryNamed ==
    (pc = "returned" /\ llm.kind = "ok" /\ AllRanked) =>
        \A i \in MatchedIdx : \A k \in NamedBy(llm.results[i].jira_id) :
            Count(enhanced_matches, MergeEntry(matches[k], llm.results[i])) >= 1

\* the last candidate, in list order, that a response identifier names
LastNamedBy(id) ==
    LET named == NamedBy(id)
    IN  CHOOSE k \in named : \A j \in named : j <= k

\* what a matched response entry turns into
MergedWithLast(i) ==
    LET e == llm.results[i]
    IN  MergeEntry(matches[LastNamedBy(e.jira_id)], e)

\* C8 (amended): a response entry whose identifier is the full identifier or
\* the short id of some candidate is looked up to the LAST such candidate in
\* list order; whenever rerank_with_llm returns merged entries the entry is
\* not dropped and is merged with that candidate and no other.
C8_MatchedToLastNamed ==
    (pc = "returned" /\ llm.kind = "ok") =>
        LET lookup == JiraToCandidate(matches)
            idx == MatchedIdx
            merged == [i \in idx |-> MergedWithLast(i)]
            abandoned == Cardinality(idx) >= 2 /\ \E i \in idx : llm.results[i].rank = None
        IN  /\ \A i \in idx :
                  lookup[llm.results[i].jira_id]
                      = matches[LastNamedBy(llm.results[i].jira_id)]
            /\ ~abandoned =>
                  /\ Len(enhanced_matches) = Cardinality(idx)
                  /\ \A i \in idx :
                        Count(enhanced_matches, merged[i])
                            = Cardinality({ j \in idx : merged[j] = merged[i] })

\* the short id names two candidates and the entry went to the later one
C8_Witness ==
    /\ pc = "returned"
    /\ llm.kind = "ok"
    /\ Len(matches) = 2
    /\ matches[1].jira_id = UrlXA
    /\ matches[2].jira_id = UrlYA
    /\ Len(llm.results) = 1
    /\ llm.results[1].jira_id = ShortA
    /\ llm.results[1].rank = Some(1)
    /\ Len(enhanced_matches) = 1
    /\ enhanced_matches[1].jira_id = UrlYA

\* C9: every entry of every list search_log returns has a similarity_score
\* between 0 and 100 inclusive (0 and 10000 hundredths).
C9_ScoreWithinPercent ==
    pc = "returned" =>
        \A i \in 1..Len(final_results) :
            /\ final_results[i].similarity_score >= 0
            /\ final_results[i].similarity_score <= 10000

\* C10: the stages run in the order normalize, embed, vector search, format,
\* re-rank, each external call at most once, and once a stage before re-rank
\* has failed no later stage is invoked.
C10_StagesInOrder ==
    /\ Len(calls) <= Len(StageOrder)
    /\ calls = SubSeq(StageOrder, 1, Len(calls))
    /\ raised # None => Len(calls) = StageIndex(raised[1].stage)
    /\ pc = "embed" => Len(calls) = 1
    /\ pc = "search" => Len(calls) = 2
    /\ pc = "format" => Len(calls) = 3
    /\ pc = "rerank" => Len(calls) = 4

\* the embedder raised: the store and the generative client were never called
C10_Witness ==
    /\ pc = "raised"
    /\ raised # None
    /\ raised[1].stage = "embed"
    /\ calls = <<"normalize_log", "generate_embedding">>

====
